---- MODULE Spec2Model ----
(***************************************************************************)
(* Model of the Resume-Agent repository: the skill matcher                 *)
(* (tools.calculate_ats_score), the improvement generator                  *)
(* (tools.generate_resume_improvements), the score router                  *)
(* (agent.route_after_ats), the LangGraph pipeline built by                *)
(* agent.create_agent and started by agent.run_agent, and the handlers of  *)
(* app.py around the dict last_state.                                      *)
(*                                                                         *)
(* Text is modelled as a sequence of tokens: the empty string is << >>,    *)
(* concatenation is \o, truthiness of a string is "not << >>".  The cross  *)
(* mark U+274C that the code puts in front of its failure strings is the   *)
(* token ErrorMark.  The Generation Service (llm.invoke) is the            *)
(* environment: every call either raises or returns a content.             *)
(***************************************************************************)
EXTENDS Integers, Sequences, FiniteSets, TLC

VARIABLES
    pc,              \* the node the graph runs next ("END" when the run is over)
    state,           \* the AgentState record threaded through the nodes
    resume_content,  \* content.split(',') of the resume skill extraction response
    jd_content,      \* content.split(',') of the job description extraction response
    failed,          \* call sites of the Generation Service that raised in this run
    calls,           \* call sites of the Generation Service invoked so far, in order
    trace,           \* nodes executed so far, in order
    result,          \* what the function of a skill matcher or generator run returned
    last_state,      \* app.last_state, the dict that keeps the last run's documents
    process,         \* the calls of process_application: position, docs, return value
    qa,              \* the call of qa_about_match: position, prompt, return value
    most_recent,     \* the handler that took the most recent process_application call
    overlapped       \* two handler calls have been in progress at the same time

\* the variables of the agent and those of the web handlers
agent_vars == <<pc, state, resume_content, jd_content, failed, calls, trace, result>>
app_vars == <<last_state, process, qa, most_recent, overlapped>>

vars == <<agent_vars, app_vars>>

----------------------------------------------------------------------------
(* Bounds of the model *)

\* longest comma separated extraction response of the skill matcher runs
MaxPieces == 3

\* longest response, in tokens, of the refine runs
MaxResponse == 3

\* longest response, in lines, of the option runs
MaxLines == 6

----------------------------------------------------------------------------
(* Strings *)

Min(a, b) == IF a < b THEN a ELSE b
Max(a, b) == IF a > b THEN a ELSE b
Range(s) == {s[i] : i \in 1..Len(s)}

\* s[:n]
Slice(s, n) == SubSeq(s, 1, Min(n, Len(s)))

\* every sequence over S with lo..hi elements
SeqsOf(S, lo, hi) == UNION {[1..k -> S] : k \in lo..hi}

\* the pieces the extraction responses of the skill matcher runs are made of:
\* a skill in two casings, a skill with blanks around it, and the empty piece
AtsPieces == {"Python", "python", " SQL ", ""}

\* the skills of the pipeline runs
ExampleSkills == <<"Python", "SQL", "Kubernetes">>

\* str.strip() on the pieces of the model
strip(p) ==
    CASE p = " SQL " -> "SQL"
      [] OTHER       -> p

\* str.lower() on the skills of the model
lower(s) ==
    CASE s = "Python"     -> "python"
      [] s = "SQL"        -> "sql"
      [] s = "Kubernetes" -> "kubernetes"
      [] OTHER            -> s

\* str(e) of the exception the Generation Service raises
ErrorText == "API error"

\* the cross mark the failure strings start with
ErrorMark == "(x)"

----------------------------------------------------------------------------
(* Generation Service outcomes *)

\* llm.invoke raised
Raises == [raises |-> TRUE, content |-> << >>]
\* llm.invoke returned a response with this content
Returns(c) == [raises |-> FALSE, content |-> c]
\* what one call can do when the service would answer c
Outcomes(c) == {Raises, Returns(c)}

----------------------------------------------------------------------------
(* tools.calculate_ats_score *)

\* [s.strip() for s in content.split(',') if s.strip()]
skill_list(pieces) ==
    LET stripped == [i \in 1..Len(pieces) |-> strip(pieces[i])]
    IN  SelectSeq(stripped, LAMBDA s : s # "")

\* the score when no skill was found in the job description
DefaultScore == 50

\* int((len(matched_skills) / len(jd_skills)) * 100): for lists shorter than
\* 50 entries the double arithmetic gives the floor of the exact quotient
\* (the first pair that differs is 29 of 50)
percent(m, n) == (m * 100) \div n

\* max(0, min(100, score))
clamp(score) == Max(0, Min(100, score))

\* [skill for skill in jd_skills if skill.lower() in lowers]
map_back(jd_skills, lowers) ==
    SelectSeq(jd_skills, LAMBDA skill : lower(skill) \in lowers)

\* jd_skills_lower - resume_skills_lower
missing_lower_mutant(resume_skills_lower, jd_skills_lower) == jd_skills_lower
missing_lower(resume_skills_lower, jd_skills_lower) ==
    jd_skills_lower \ resume_skills_lower

score_of_mutant(matched_skills, jd_skills) ==
    IF Len(jd_skills) > 0
    THEN percent(Len(matched_skills), Len(jd_skills))
    ELSE 0
score_of(matched_skills, jd_skills) ==
    IF Len(jd_skills) > 0
    THEN percent(Len(matched_skills), Len(jd_skills))
    ELSE DefaultScore

\* the function's result: it raises when one of its two extraction calls
\* raises (the second call is not made when the first raised)
calculate_ats_score(resume_out, jd_out) ==
    IF resume_out.raises
    THEN [raised |-> TRUE, calls |-> <<"resume_skills">>,
          failed |-> {"resume_skills"},
          score |-> 0, matched_skills |-> << >>, missing_skills |-> << >>]
    ELSE IF jd_out.raises
    THEN [raised |-> TRUE, calls |-> <<"resume_skills", "jd_skills">>,
          failed |-> {"jd_skills"},
          score |-> 0, matched_skills |-> << >>, missing_skills |-> << >>]
    ELSE
    LET resume_skills == skill_list(resume_out.content)
        jd_skills == skill_list(jd_out.content)
        resume_skills_lower == {lower(skill) : skill \in Range(resume_skills)}
        jd_skills_lower == {lower(skill) : skill \in Range(jd_skills)}
        matched_skills_lower == resume_skills_lower \cap jd_skills_lower
        missing_skills_lower == missing_lower(resume_skills_lower, jd_skills_lower)
        matched_skills == map_back(jd_skills, matched_skills_lower)
        missing_skills == map_back(jd_skills, missing_skills_lower)
    IN  [raised |-> FALSE, calls |-> <<"resume_skills", "jd_skills">>,
         failed |-> {},
         score |-> clamp(score_of(matched_skills, jd_skills)),
         matched_skills |-> matched_skills,
         missing_skills |-> missing_skills]

\* no call of calculate_ats_score has returned yet
NoResult ==
    [raised |-> FALSE, calls |-> << >>, failed |-> {}, score |-> 0,
     matched_skills |-> << >>, missing_skills |-> << >>]

----------------------------------------------------------------------------
(* Content generators of tools.py *)

\* what the Generation Service answers at a call site when it does not raise;
\* the cover letter and the bullets come back with bold markdown in them
ServiceText(site) ==
    IF site \in {"cover_letter", "bullets"}
    THEN <<"**generated**", site>>
    ELSE <<"generated", site>>

\* re.sub(r'\*\*([^*]+)\*\*', r'\1', content)
strip_bold(content) ==
    [i \in 1..Len(content) |->
        IF content[i] = "**generated**" THEN "generated" ELSE content[i]]

\* llm.invoke(prompt...).content at one call site
invoke(site, out) ==
    [raised |-> out.raises, value |-> out.content, calls |-> <<site>>,
     failed |-> IF out.raises THEN {site} ELSE {}]

\* a return that made no call of the Generation Service
no_call(value) ==
    [raised |-> FALSE, value |-> value, calls |-> << >>, failed |-> {}]

\* a retry: the call is made a second time when the first one raised
generate_cover_letter_mutant(resume, jd, company_name, out) ==
    LET response == invoke("cover_letter", out)
    IN  IF response.raised
        THEN [response EXCEPT !.calls = response.calls \o response.calls]
        ELSE [response EXCEPT !.value = strip_bold(response.value)]
generate_cover_letter(resume, jd, company_name, out) ==
    LET response == invoke("cover_letter", out)
    IN  IF response.raised THEN response
        ELSE [response EXCEPT !.value = strip_bold(response.value)]

optimize_resume_bullets(resume, jd, out) ==
    LET response == invoke("bullets", out)
    IN  IF response.raised THEN response
        ELSE [response EXCEPT !.value = strip_bold(response.value)]

generate_interview_questions(jd, resume, out) == invoke("interview_questions", out)

research_role_expectations(jd_text, job_title, out) == invoke("role_expectations", out)

generate_learning_plan(missing_skills, matched_skills, out) ==
    invoke("learning_plan", out)

self_review_output(final_output, resume, jd, out) == invoke("self_review", out)

\* the fixed sentence of the 85..89 tier
NoMajorImprovements ==
    <<"No major improvements needed. Your resume shows strong alignment with the job requirements.">>

generate_resume_improvements_mutant(resume, jd, matched_skills, missing_skills, ats_score, out) ==
    IF ats_score >= 90 THEN no_call(<< >>)
    ELSE IF ats_score > 85 THEN no_call(NoMajorImprovements)
    ELSE invoke("improvements", out)
generate_resume_improvements_inverted_mutant(resume, jd, matched_skills, missing_skills, ats_score, out) ==
    IF ats_score <= 90 THEN no_call(<< >>)
    ELSE IF ats_score >= 85 THEN no_call(NoMajorImprovements)
    ELSE invoke("improvements", out)
generate_resume_improvements(resume, jd, matched_skills, missing_skills, ats_score, out) ==
    IF ats_score >= 90 THEN no_call(<< >>)
    ELSE IF ats_score >= 85 THEN no_call(NoMajorImprovements)
    ELSE invoke("improvements", out)

\* two calls, the cover letter first; the second is not made when the first raised
revise_content_mutant(cover_letter, optimized_bullets, review_notes, resume, jd, cover_out, bullets_out) ==
    LET revised_cover_letter == invoke("revise_cover_letter", cover_out)
        revised_bullets == invoke("revise_bullets", bullets_out)
        nothing == [revised_cover_letter |-> << >>, revised_bullets |-> << >>]
    IN  IF revised_cover_letter.raised
        THEN [revised_cover_letter EXCEPT !.value = nothing]
        ELSE [raised |-> FALSE,
              value |-> [revised_cover_letter |-> revised_cover_letter.value,
                         revised_bullets |-> IF revised_bullets.raised
                                             THEN optimized_bullets
                                             ELSE revised_bullets.value],
              calls |-> revised_cover_letter.calls \o revised_bullets.calls,
              failed |-> revised_bullets.failed]
revise_content(cover_letter, optimized_bullets, review_notes, resume, jd, cover_out, bullets_out) ==
    LET revised_cover_letter == invoke("revise_cover_letter", cover_out)
        revised_bullets == invoke("revise_bullets", bullets_out)
        nothing == [revised_cover_letter |-> << >>, revised_bullets |-> << >>]
    IN  IF revised_cover_letter.raised
        THEN [revised_cover_letter EXCEPT !.value = nothing]
        ELSE IF revised_bullets.raised
        THEN [raised |-> TRUE, value |-> nothing,
              calls |-> revised_cover_letter.calls \o revised_bullets.calls,
              failed |-> revised_bullets.failed]
        ELSE [raised |-> FALSE,
              value |-> [revised_cover_letter |-> revised_cover_letter.value,
                         revised_bullets |-> revised_bullets.value],
              calls |-> revised_cover_letter.calls \o revised_bullets.calls,
              failed |-> {}]

----------------------------------------------------------------------------
(* Nodes of agent.py.  A node returns the state it leaves, the call sites   *)
(* it invoked, the ones that raised, and whether an exception left it.      *)

node_return(st, response) ==
    [raised |-> FALSE, state |-> st, calls |-> response.calls, failed |-> response.failed]

\* an exception that no except clause of the node caught
node_raise(st, response) ==
    [raised |-> TRUE, state |-> st, calls |-> response.calls, failed |-> response.failed]

\* f"{ErrorMark} <what> failed: {str(e)}"
failure(what) == <<ErrorMark, what, ErrorText>>

\* the strings the nodes write when their generator raised
cover_letter_failed ==
    failure("Cover letter generation failed:")
    \o <<"Please check your API key and try again.">>
bullets_failed == failure("Resume optimization failed:")
improvements_failed == failure("Improvement suggestions failed:")
interview_questions_failed == failure("Interview questions generation failed:")
role_expectations_failed == failure("Role research failed:")
learning_plan_failed == failure("Learning plan generation failed:")
review_notes_failed == <<"Self-review skipped due to error:", ErrorText>>
matched_skills_failed == <<"Error analyzing skills">>
missing_skills_failed == <<"ATS analysis failed: API error">>

parse_node(st) == node_return(st, no_call(<< >>))

\* the score the node writes when calculate_ats_score raised
AtsFailureScore_mutant == 0 - 1
AtsFailureScore == 50

ats_analysis_node_mutant(st, resume_out, jd_out) ==
    LET answer == calculate_ats_score(resume_out, jd_out)
    IN  IF ~answer.raised
        THEN node_return([st EXCEPT !.ats_score = answer.score,
                                    !.matched_skills = answer.matched_skills,
                                    !.missing_skills = answer.missing_skills],
                         answer)
        ELSE node_raise(st, answer)
ats_analysis_node(st, resume_out, jd_out) ==
    LET answer == calculate_ats_score(resume_out, jd_out)
    IN  IF ~answer.raised
        THEN node_return([st EXCEPT !.ats_score = answer.score,
                                    !.matched_skills = answer.matched_skills,
                                    !.missing_skills = answer.missing_skills],
                         answer)
        ELSE node_return([st EXCEPT !.ats_score = AtsFailureScore,
                                    !.matched_skills = matched_skills_failed,
                                    !.missing_skills = missing_skills_failed],
                         answer)

cover_letter_node_mutant(st, out) ==
    LET cover_letter == generate_cover_letter(st.resume, st.jd, st.company_name, out)
    IN  IF ~cover_letter.raised
        THEN node_return([st EXCEPT !.cover_letter = cover_letter.value], cover_letter)
        ELSE node_raise(st, cover_letter)
cover_letter_node(st, out) ==
    LET cover_letter == generate_cover_letter(st.resume, st.jd, st.company_name, out)
    IN  IF ~cover_letter.raised
        THEN node_return([st EXCEPT !.cover_letter = cover_letter.value], cover_letter)
        ELSE node_return([st EXCEPT !.cover_letter = cover_letter_failed], cover_letter)

resume_optimizer_node(st, out) ==
    LET bullets == optimize_resume_bullets(st.resume, st.jd, out)
    IN  IF ~bullets.raised
        THEN node_return([st EXCEPT !.optimized_bullets = bullets.value], bullets)
        ELSE node_return([st EXCEPT !.optimized_bullets = bullets_failed], bullets)

\* the node does not pass the score: ats_score takes its default, 0
resume_improvement_node_mutant(st, out) ==
    LET suggestions ==
            generate_resume_improvements(st.resume, st.jd, st.matched_skills,
                                         st.missing_skills, 0, out)
    IN  IF ~suggestions.raised
        THEN node_return([st EXCEPT !.improvement_suggestions = suggestions.value],
                         suggestions)
        ELSE node_return(st, suggestions)
resume_improvement_node(st, out) ==
    LET suggestions ==
            generate_resume_improvements(st.resume, st.jd, st.matched_skills,
                                         st.missing_skills, 0, out)
    IN  IF ~suggestions.raised
        THEN node_return([st EXCEPT !.improvement_suggestions = suggestions.value],
                         suggestions)
        ELSE node_return([st EXCEPT !.improvement_suggestions = improvements_failed],
                         suggestions)

\* two try blocks, one after the other
interview_prep_node(st, questions_out, role_out) ==
    LET questions == generate_interview_questions(st.jd, st.resume, questions_out)
        role_research == research_role_expectations(st.jd, st.company_name, role_out)
        st1 == [st EXCEPT !.interview_questions =
                    IF ~questions.raised THEN questions.value
                    ELSE interview_questions_failed]
        st2 == [st1 EXCEPT !.role_expectations =
                    IF ~role_research.raised THEN role_research.value
                    ELSE role_expectations_failed]
    IN  node_return(st2, [calls |-> questions.calls \o role_research.calls,
                          failed |-> questions.failed \cup role_research.failed])

\* chr(10).join(f"  * {skill}" for skill in skills[:10])
skill_lines(skills) ==
    LET shown == Slice(skills, 10)
    IN  [i \in 1..(2 * Len(shown)) |->
            IF i % 2 = 1 THEN "*" ELSE shown[i \div 2]]

\* the improvement section: left out when improvement_suggestions is empty
improvement_section(st) ==
    IF st.improvement_suggestions # << >>
    THEN <<"RESUME IMPROVEMENT SUGGESTIONS">> \o st.improvement_suggestions
    ELSE << >>

\* the sections both reports share, from the score line to the learning plan
report_sections(st) ==
    <<"ATS MATCH SCORE:", ToString(st.ats_score), "/100">>
    \o <<"MATCHED SKILLS:">> \o skill_lines(st.matched_skills)
    \o <<"SKILLS GAP:">> \o skill_lines(st.missing_skills)
    \o improvement_section(st)
    \o <<"COVER LETTER">> \o st.cover_letter
    \o <<"OPTIMIZED RESUME BULLETS">> \o st.optimized_bullets
    \o <<"INTERVIEW PREPARATION">> \o st.interview_questions
    \o <<"ROLE EXPECTATIONS">> \o st.role_expectations
    \o <<"SKILL GROWTH PLAN">> \o st.learning_plan

\* the node keeps in the state the skills it shows, one matched skill here
compile_output_node_mutant(st, out) ==
    LET learning_plan == generate_learning_plan(st.missing_skills, st.matched_skills, out)
        st1 == [st EXCEPT !.learning_plan =
                    IF ~learning_plan.raised THEN learning_plan.value
                    ELSE learning_plan_failed,
                          !.matched_skills = Slice(st.matched_skills, 1)]
        output == <<"JOB APPLICATION PACKAGE">>
                  \o report_sections(st1)
                  \o <<"Generated by Resume Job Agent", "Powered by LangGraph + Gemini">>
    IN  node_return([st1 EXCEPT !.final_output = output], learning_plan)
compile_output_node(st, out) ==
    LET learning_plan == generate_learning_plan(st.missing_skills, st.matched_skills, out)
        st1 == [st EXCEPT !.learning_plan =
                    IF ~learning_plan.raised THEN learning_plan.value
                    ELSE learning_plan_failed]
        output == <<"JOB APPLICATION PACKAGE">>
                  \o report_sections(st1)
                  \o <<"Generated by Resume Job Agent", "Powered by LangGraph + Gemini">>
    IN  node_return([st1 EXCEPT !.final_output = output], learning_plan)

self_review_node(st, out) ==
    LET review_notes == self_review_output(st.final_output, st.resume, st.jd, out)
    IN  IF ~review_notes.raised
        THEN node_return([st EXCEPT !.review_notes = review_notes.value], review_notes)
        ELSE node_return([st EXCEPT !.review_notes = review_notes_failed], review_notes)

revise_output_node_mutant(st, cover_out, bullets_out) ==
    LET revisions == revise_content(st.cover_letter, st.optimized_bullets,
                                    st.review_notes, st.resume, st.jd,
                                    cover_out, bullets_out)
        st1 == IF ~revisions.raised
               THEN [st EXCEPT !.cover_letter = revisions.value.revised_cover_letter,
                               !.optimized_bullets = revisions.value.revised_bullets,
                               !.review_notes = << >>]
               ELSE st
        revised_output == <<"JOB APPLICATION PACKAGE", "(REVISED VERSION)">>
                          \o report_sections(st1)
                          \o <<"Generated by Resume Job Agent",
                               "Powered by LangGraph + Gemini",
                               "Self-Reviewed & Revised">>
    IN  node_return([st1 EXCEPT !.final_output = revised_output], revisions)
\* the except clause returns the state as it is, without recompiling
revise_output_node_return_mutant(st, cover_out, bullets_out) ==
    LET revisions == revise_content(st.cover_letter, st.optimized_bullets,
                                    st.review_notes, st.resume, st.jd,
                                    cover_out, bullets_out)
        st1 == IF ~revisions.raised
               THEN [st EXCEPT !.cover_letter = revisions.value.revised_cover_letter,
                               !.optimized_bullets = revisions.value.revised_bullets]
               ELSE st
        revised_output == <<"JOB APPLICATION PACKAGE", "(REVISED VERSION)">>
                          \o report_sections(st1)
                          \o <<"Generated by Resume Job Agent",
                               "Powered by LangGraph + Gemini",
                               "Self-Reviewed & Revised">>
    IN  IF revisions.raised
        THEN node_return(st, revisions)
        ELSE node_return([st1 EXCEPT !.final_output = revised_output], revisions)
revise_output_node(st, cover_out, bullets_out) ==
    LET revisions == revise_content(st.cover_letter, st.optimized_bullets,
                                    st.review_notes, st.resume, st.jd,
                                    cover_out, bullets_out)
        st1 == IF ~revisions.raised
               THEN [st EXCEPT !.cover_letter = revisions.value.revised_cover_letter,
                               !.optimized_bullets = revisions.value.revised_bullets]
               ELSE st
        revised_output == <<"JOB APPLICATION PACKAGE", "(REVISED VERSION)">>
                          \o report_sections(st1)
                          \o <<"Generated by Resume Job Agent",
                               "Powered by LangGraph + Gemini",
                               "Self-Reviewed & Revised">>
    IN  node_return([st1 EXCEPT !.final_output = revised_output], revisions)

\* the conditional edge out of ats_analysis
route_after_ats_mutant(st) ==
    IF st.ats_score <= 60 THEN "resume_improvement" ELSE "generate_cover_letter"
route_after_ats_low_mutant(st) ==
    IF st.ats_score < 50 THEN "resume_improvement" ELSE "generate_cover_letter"
route_after_ats(st) ==
    IF st.ats_score < 60 THEN "resume_improvement" ELSE "generate_cover_letter"

----------------------------------------------------------------------------
(* The graph of create_agent *)

Nodes ==
    {"parse", "ats_analysis", "resume_improvement", "generate_cover_letter",
     "resume_optimizer", "interview_prep", "compile_output", "self_review",
     "revise_output"}

entry_point == "parse"

\* add_conditional_edges("ats_analysis", route_after_ats, {...})
conditional_edges_mutant ==
    [resume_improvement |-> "generate_cover_letter",
     generate_cover_letter |-> "generate_cover_letter"]
conditional_edges ==
    [resume_improvement |-> "resume_improvement",
     generate_cover_letter |-> "generate_cover_letter"]

\* add_edge
edges_mutant ==
    [parse |-> "ats_analysis",
     resume_improvement |-> "generate_cover_letter",
     generate_cover_letter |-> "resume_optimizer",
     resume_optimizer |-> "interview_prep",
     interview_prep |-> "self_review",
     compile_output |-> "self_review",
     self_review |-> "revise_output",
     revise_output |-> "END"]
edges ==
    [parse |-> "ats_analysis",
     resume_improvement |-> "generate_cover_letter",
     generate_cover_letter |-> "resume_optimizer",
     resume_optimizer |-> "interview_prep",
     interview_prep |-> "compile_output",
     compile_output |-> "self_review",
     self_review |-> "revise_output",
     revise_output |-> "END"]

\* the node the graph runs after `node` has left the state st
next_node(node, st) ==
    IF node = "ats_analysis"
    THEN conditional_edges[route_after_ats(st)]
    ELSE edges[node]

\* run_agent's initial_state
initial_state ==
    [resume |-> <<"resume text">>,
     jd |-> <<"jd text">>,
     company_name |-> <<"the company">>,
     ats_score |-> 0,
     matched_skills |-> << >>,
     missing_skills |-> << >>,
     improvement_suggestions |-> << >>,
     cover_letter |-> << >>,
     optimized_bullets |-> << >>,
     interview_questions |-> << >>,
     role_expectations |-> << >>,
     learning_plan |-> << >>,
     final_output |-> << >>,
     review_notes |-> << >>]

----------------------------------------------------------------------------
(* The handlers of app.py.  The web framework runs every handler call in a  *)
(* thread of its own: the statements of one call run in order, and calls    *)
(* interleave between the statements that read or write last_state.         *)

\* the calls of process_application that can be in progress at the same time
Handlers == {1, 2}

\* what parse_documents extracts from the files of a submission
Documents ==
    {[resume |-> <<"resume A">>, jd |-> <<"jd A">>],
     [resume |-> <<"resume B">>, jd |-> <<"jd B">>]}

\* the questions put to qa_about_match
Questions == {<<"Am I a good fit?">>}

\* the module level dict last_state
last_state_initial ==
    [resume |-> << >>, jd |-> << >>, ats_result |-> "None", full_report |-> << >>]

\* a handler that has not been called
NotCalled == [pc |-> "idle", docs |-> [resume |-> << >>, jd |-> << >>], returned |-> << >>]

\* qa_about_match before its first call
QaNotCalled ==
    [pc |-> "idle", question |-> << >>, prompt |-> [resume |-> << >>, jd |-> << >>],
     calls |-> << >>, returned |-> << >>]

\* no handler has been called
NoHandlerCalled ==
    /\ last_state = last_state_initial
    /\ process = [p \in Handlers |-> NotCalled]
    /\ qa = QaNotCalled
    /\ most_recent = 0
    /\ overlapped = FALSE

\* a call of process_application is between its entry and its return
InProgress(p) == process[p].pc \notin {"idle", "returned"}

\* a call of qa_about_match is between its entry and its return
QaInProgress == qa.pc # "idle"

html_wrap(content) ==
    IF content = << >> \/ Head(content) = ErrorMark
    THEN <<"<div muted>">>
         \o (IF content # << >> THEN content ELSE <<"No content available.">>)
         \o <<"</div>">>
    ELSE <<"<div>">> \o content \o <<"</div>">>

\* the tuple the except clause of process_application returns
error_return(e) ==
    LET error_msg == <<ErrorMark, "Error:", e, "Please check your API key and try again.">>
    IN  <<error_msg, html_wrap(<< >>), << >>, html_wrap(<< >>), html_wrap(<< >>),
          html_wrap(<< >>), html_wrap(<< >>), << >>, << >>, << >>>>

\* run_agent returns final_state["final_output"]: a str, whatever the run did
run_agent(resume_text, jd_text, company_name) ==
    [type |-> "str",
     value |-> <<"JOB APPLICATION PACKAGE", "(REVISED VERSION)">>]

\* result.get and result[...] need a dict
is_dict(value) == value.type = "dict"

\* the tuple process_application returns from its try block
sections_return(result_of_run, docs) ==
    LET sections == result_of_run.value
    IN  <<sections.ats_section,
          html_wrap(sections.resume_suggestions_section),
          sections.cover_letter_section,
          html_wrap(sections.bullets_section),
          html_wrap(sections.interview_section),
          html_wrap(sections.role_expectations_section),
          html_wrap(sections.skill_growth_section),
          sections.full_report,
          docs.resume,
          docs.jd>>

\* last_state[key] = value
store_mutant(cache, key, value) ==
    IF cache[key] = << >> THEN [cache EXCEPT ![key] = value] ELSE cache
store(cache, key, value) == [cache EXCEPT ![key] = value]

\* process_application is called and parses its files
Submit(p) ==
    /\ ~InProgress(p)
    /\ \E docs \in Documents :
          process' = [process EXCEPT ![p] = [pc |-> "store_resume", docs |-> docs,
                                             returned |-> << >>]]
    /\ most_recent' = p
    /\ overlapped' = (overlapped \/ QaInProgress
                      \/ \E q \in Handlers \ {p} : InProgress(q))
    /\ UNCHANGED <<last_state, qa, agent_vars>>

\* last_state["resume"] = docs["resume"]
StoreResume_mutant(p) ==
    /\ process[p].pc = "store_resume"
    /\ last_state' = [last_state EXCEPT !.resume = process[p].docs.resume,
                                        !.jd = process[p].docs.jd]
    /\ process' = [process EXCEPT ![p].pc = "store_jd"]
    /\ UNCHANGED <<qa, most_recent, overlapped, agent_vars>>
StoreResume(p) ==
    /\ process[p].pc = "store_resume"
    /\ last_state' = store(last_state, "resume", process[p].docs.resume)
    /\ process' = [process EXCEPT ![p].pc = "store_jd"]
    /\ UNCHANGED <<qa, most_recent, overlapped, agent_vars>>

\* last_state["jd"] = docs["jd"]
StoreJd(p) ==
    /\ process[p].pc = "store_jd"
    /\ last_state' = store(last_state, "jd", process[p].docs.jd)
    /\ process' = [process EXCEPT ![p].pc = "run_agent"]
    /\ UNCHANGED <<qa, most_recent, overlapped, agent_vars>>

\* the agent runs, and the handler reads its result as a dict and returns
RunAgent(p) ==
    /\ process[p].pc = "run_agent"
    /\ LET docs == process[p].docs
           result_of_run == run_agent(docs.resume, docs.jd, <<"the company">>)
       IN  IF is_dict(result_of_run)
           THEN /\ last_state' = store(last_state, "full_report",
                                        result_of_run.value.full_report)
                /\ process' = [process EXCEPT
                      ![p].pc = "returned",
                      ![p].returned = sections_return(result_of_run, docs)]
           ELSE /\ last_state' = last_state
                /\ process' = [process EXCEPT
                      ![p].pc = "returned",
                      ![p].returned = error_return("'str' object has no attribute 'get'")]
    /\ UNCHANGED <<qa, most_recent, overlapped, agent_vars>>

\* the string qa_about_match returns while the cache is empty
RunAgentFirst == <<"Please run the agent first in 'Agent Mode' tab to analyze your resume and JD.">>

\* qa_about_match is called: `not last_state["resume"]`
QaCheckResume ==
    /\ qa.pc = "idle"
    /\ \E question \in Questions :
          qa' = IF last_state.resume = << >>
                THEN [QaNotCalled EXCEPT !.question = question, !.returned = RunAgentFirst]
                ELSE [QaNotCalled EXCEPT !.question = question, !.pc = "check_jd"]
    /\ overlapped' = (overlapped \/ \E p \in Handlers : InProgress(p))
    /\ UNCHANGED <<last_state, process, most_recent, agent_vars>>

\* `or not last_state["jd"]`
QaCheckJd ==
    /\ qa.pc = "check_jd"
    /\ qa' = IF last_state.jd = << >>
             THEN [qa EXCEPT !.pc = "idle", !.returned = RunAgentFirst]
             ELSE [qa EXCEPT !.pc = "format_resume"]
    /\ UNCHANGED <<last_state, process, most_recent, overlapped, agent_vars>>

\* resume=last_state["resume"]
QaFormatResume ==
    /\ qa.pc = "format_resume"
    /\ qa' = [qa EXCEPT !.pc = "format_jd", !.prompt.resume = last_state.resume]
    /\ UNCHANGED <<last_state, process, most_recent, overlapped, agent_vars>>

\* jd=last_state["jd"]
QaFormatJd ==
    /\ qa.pc = "format_jd"
    /\ qa' = [qa EXCEPT !.pc = "invoke", !.prompt.jd = last_state.jd]
    /\ UNCHANGED <<last_state, process, most_recent, overlapped, agent_vars>>

\* f"{ErrorMark} Error: {str(e)}"
qa_error == <<ErrorMark, "Error:", ErrorText>>

\* what the Generation Service answers to a question
QaAnswer == <<"answer">>

\* llm.invoke on the prompt, and the return of the answer or of the error string
QaInvoke_mutant ==
    /\ qa.pc = "invoke"
    /\ \E out \in Outcomes(QaAnswer) :
          LET response == invoke("qa", out)
          IN  qa' = IF response.raised
                    THEN [qa EXCEPT !.pc = "raised", !.calls = response.calls]
                    ELSE [qa EXCEPT !.pc = "idle", !.calls = response.calls,
                                    !.returned = response.value]
    /\ UNCHANGED <<last_state, process, most_recent, overlapped, agent_vars>>
QaInvoke ==
    /\ qa.pc = "invoke"
    /\ \E out \in Outcomes(QaAnswer) :
          LET response == invoke("qa", out)
          IN  qa' = [qa EXCEPT !.pc = "idle",
                               !.calls = response.calls,
                               !.returned = IF response.raised
                                            THEN qa_error
                                            ELSE response.value]
    /\ UNCHANGED <<last_state, process, most_recent, overlapped, agent_vars>>

----------------------------------------------------------------------------
(* The prompts.  The texts a function puts into prompt.format at a call     *)
(* site of the Generation Service, out of the resume, the job description,  *)
(* the cover letter and the bullets it was given; text[:n] is Slice.        *)

generate_refinement_options_prompt_mutant(resume_text, jd_text) ==
    [resume |-> Slice(resume_text, 1500), jd |-> jd_text]
generate_refinement_options_prompt(resume_text, jd_text) ==
    [resume |-> Slice(resume_text, 1500), jd |-> Slice(jd_text, 1500)]

review_application_package_prompt(cover_letter, optimized_bullets) ==
    [cover_letter |-> Slice(cover_letter, 500), bullets |-> Slice(optimized_bullets, 300)]

refine_with_preference_tool_prompt(cover_letter, bullets, resume_text, jd_text) ==
    [cover_letter |-> cover_letter, bullets |-> bullets,
     resume |-> resume_text, jd |-> jd_text]

qa_about_match_prompt(cache) == [resume |-> cache.resume, jd |-> cache.jd]

\* the call sites of the pipeline whose prompt takes the resume or the job
\* description
PipelineSites ==
    {"resume_skills", "jd_skills", "improvements", "cover_letter", "bullets",
     "interview_questions", "role_expectations", "self_review",
     "revise_cover_letter", "revise_bullets"}

\* the call sites of the handlers of app.py and of the helpers of tools.py
HelperSites == {"qa", "refine", "refinement_options", "review_package"}

pipeline_prompt(site, resume, jd, cover_letter, bullets) ==
    CASE site = "resume_skills" -> [resume |-> resume]
      [] site \in {"jd_skills", "role_expectations"} -> [jd |-> jd]
      [] site = "revise_cover_letter" ->
            [cover_letter |-> cover_letter, resume |-> resume, jd |-> jd]
      [] site = "revise_bullets" -> [bullets |-> bullets, resume |-> resume, jd |-> jd]
      [] OTHER -> [resume |-> resume, jd |-> jd]

prompt_of(site, resume, jd, cover_letter, bullets) ==
    CASE site = "qa" -> qa_about_match_prompt([resume |-> resume, jd |-> jd])
      [] site = "refine" -> refine_with_preference_tool_prompt(cover_letter, bullets, resume, jd)
      [] site = "refinement_options" -> generate_refinement_options_prompt(resume, jd)
      [] site = "review_package" -> review_application_package_prompt(cover_letter, bullets)
      [] OTHER -> pipeline_prompt(site, resume, jd, cover_letter, bullets)

----------------------------------------------------------------------------
(* The refine helpers of tools.py.  A response is a sequence of tokens: the *)
(* markers, words, and the white space token " ".                           *)

\* text.strip() on a sequence of tokens
strip_text(text) ==
    LET solid == {i \in 1..Len(text) : text[i] # " "}
    IN  IF solid = {} THEN << >>
        ELSE SubSeq(text,
                    CHOOSE i \in solid : \A j \in solid : i <= j,
                    CHOOSE i \in solid : \A j \in solid : j <= i)

\* text.replace(token, "")
without(text, token) == SelectSeq(text, LAMBDA t : t # token)

\* the index of the first occurrence of the token in the text
first_index(text, token) ==
    CHOOSE i \in 1..Len(text) : text[i] = token /\ \A j \in 1..(i - 1) : text[j] # token

\* "[COVER_LETTER]" in text and "[BULLETS]" in text
has_markers(text) == {"[COVER_LETTER]", "[BULLETS]"} \subseteq Range(text)

\* before.replace("[COVER_LETTER]", "").strip() of text.split("[BULLETS]", 1)
cover_part_of(text) ==
    strip_text(without(SubSeq(text, 1, first_index(text, "[BULLETS]") - 1),
                       "[COVER_LETTER]"))

\* after.strip() of text.split("[BULLETS]", 1)
bullets_part_of(text) ==
    strip_text(SubSeq(text, first_index(text, "[BULLETS]") + 1, Len(text)))

\* the preference that asks for no change
LooksGood == "Looks good as is"

\* the safety fallback for empty parts is left out
refine_with_preference_tool_mutant(cover_letter, bullets, preference, resume_text, jd_text, out) ==
    LET originals == [cover_letter |-> cover_letter, bullets |-> bullets]
        response == invoke("refine", out)
        text == response.value
        cover_part == IF has_markers(text) THEN cover_part_of(text) ELSE cover_letter
        bullets_part == IF has_markers(text) THEN bullets_part_of(text) ELSE bullets
    IN  IF preference = LooksGood THEN no_call(originals)
        ELSE IF response.raised
        THEN [response EXCEPT !.raised = FALSE, !.value = originals]
        ELSE [response EXCEPT !.value = [cover_letter |-> strip_bold(cover_part),
                                         bullets |-> strip_bold(bullets_part)]]
refine_with_preference_tool(cover_letter, bullets, preference, resume_text, jd_text, out) ==
    LET originals == [cover_letter |-> cover_letter, bullets |-> bullets]
        response == invoke("refine", out)
        text == response.value
        cover_part == IF has_markers(text) THEN cover_part_of(text) ELSE cover_letter
        bullets_part == IF has_markers(text) THEN bullets_part_of(text) ELSE bullets
        cover_kept == IF cover_part = << >> THEN cover_letter ELSE cover_part
        bullets_kept == IF bullets_part = << >> THEN bullets ELSE bullets_part
    IN  IF preference = LooksGood THEN no_call(originals)
        ELSE IF response.raised
        THEN [response EXCEPT !.raised = FALSE, !.value = originals]
        ELSE [response EXCEPT !.value = [cover_letter |-> strip_bold(cover_kept),
                                         bullets |-> strip_bold(bullets_kept)]]

\* the lines of the responses to the options prompt: the marker, a numbered
\* option, a quoted option of ten characters, and the blank line
OptionLines ==
    {"[OPTIONS]", "1. Highlight backend and system design more", "- 'Be concise'", ""}

\* re.sub(r'^[\d\.\-\*\)]+\s*', '', opt).strip of quotes, on the lines of the model
cleaned_line(opt) ==
    CASE opt = "1. Highlight backend and system design more"
            -> "Highlight backend and system design more"
      [] opt = "- 'Be concise'" -> "Be concise"
      [] OTHER -> opt

\* len(cleaned) > 10, on the lines of the model
is_meaningful(cleaned) ==
    cleaned \notin {"", "Be concise", "[OPTIONS]"}

\* options_text.split('[OPTIONS]')[1]: the lines between the first marker and
\* the second one, or the end
options_section(lines) ==
    LET first == first_index(lines, "[OPTIONS]")
        rest == SubSeq(lines, first + 1, Len(lines))
    IN  IF "[OPTIONS]" \in Range(rest)
        THEN SubSeq(rest, 1, first_index(rest, "[OPTIONS]") - 1)
        ELSE rest

\* the options parsed from the response
cleaned_options(lines) ==
    LET options == IF "[OPTIONS]" \in Range(lines) THEN options_section(lines) ELSE lines
        cleaned == [i \in 1..Len(options) |-> cleaned_line(options[i])]
    IN  SelectSeq(cleaned, is_meaningful)

\* the options added to fewer than three parsed ones
DefaultOptions ==
    <<"Make tone more professional", "Increase technical depth",
      "Focus on quantifiable achievements">>

\* the options returned when the Generation Service raised
FallbackOptions ==
    DefaultOptions \o <<"Emphasize leadership and impact", "Make more concise">>

\* the defaults are added only when nothing was parsed
generate_refinement_options_mutant(resume_text, jd_text, cover_letter, bullets, out) ==
    LET response == invoke("refinement_options", out)
        parsed == cleaned_options(response.value)
        padded == IF Len(parsed) < 1 THEN parsed \o DefaultOptions ELSE parsed
    IN  IF response.raised
        THEN [response EXCEPT !.raised = FALSE, !.value = FallbackOptions]
        ELSE [response EXCEPT !.value = Slice(padded, 5)]
generate_refinement_options(resume_text, jd_text, cover_letter, bullets, out) ==
    LET response == invoke("refinement_options", out)
        parsed == cleaned_options(response.value)
        padded == IF Len(parsed) < 3 THEN parsed \o DefaultOptions ELSE parsed
    IN  IF response.raised
        THEN [response EXCEPT !.raised = FALSE, !.value = FallbackOptions]
        ELSE [response EXCEPT !.value = Slice(padded, 5)]

----------------------------------------------------------------------------
(* A pipeline run: run_agent builds the graph and the initial state and     *)
(* invokes the graph; the graph runs one node at a time and follows its     *)
(* edges.  An exception that leaves a node leaves agent.invoke and          *)
(* run_agent: pc = "raised".                                                *)

\* the extraction responses of the pipeline runs: the resume names the first
\* one or two example skills or nothing, the job description a prefix of the
\* example skills or nothing
PipelineResumeContents ==
    {Slice(ExampleSkills, k) : k \in 1..2} \cup {<<"">>}
PipelineJdContents ==
    {Slice(ExampleSkills, k) : k \in 1..Len(ExampleSkills)} \cup {<<"">>}

Init ==
    /\ pc = entry_point
    /\ state = initial_state
    /\ resume_content \in PipelineResumeContents
    /\ jd_content \in PipelineJdContents
    /\ failed = {}
    /\ calls = << >>
    /\ trace = << >>
    /\ result = NoResult
    /\ NoHandlerCalled

\* the graph runs `node`, whose function returned `returned`
Step(node, returned) ==
    /\ pc = node
    /\ state' = returned.state
    /\ pc' = IF returned.raised THEN "raised" ELSE next_node(node, returned.state)
    /\ calls' = calls \o returned.calls
    /\ failed' = failed \cup returned.failed
    /\ trace' = Append(trace, node)
    /\ UNCHANGED <<resume_content, jd_content, result, app_vars>>

Parse == Step("parse", parse_node(state))

AtsAnalysis ==
    \E resume_out \in Outcomes(resume_content), jd_out \in Outcomes(jd_content) :
        Step("ats_analysis", ats_analysis_node(state, resume_out, jd_out))

ResumeImprovement ==
    \E out \in Outcomes(ServiceText("improvements")) :
        Step("resume_improvement", resume_improvement_node(state, out))

GenerateCoverLetter ==
    \E out \in Outcomes(ServiceText("cover_letter")) :
        Step("generate_cover_letter", cover_letter_node(state, out))

ResumeOptimizer ==
    \E out \in Outcomes(ServiceText("bullets")) :
        Step("resume_optimizer", resume_optimizer_node(state, out))

InterviewPrep ==
    \E questions_out \in Outcomes(ServiceText("interview_questions")),
       role_out \in Outcomes(ServiceText("role_expectations")) :
        Step("interview_prep", interview_prep_node(state, questions_out, role_out))

CompileOutput ==
    \E out \in Outcomes(ServiceText("learning_plan")) :
        Step("compile_output", compile_output_node(state, out))

SelfReview ==
    \E out \in Outcomes(ServiceText("self_review")) :
        Step("self_review", self_review_node(state, out))

ReviseOutput ==
    \E cover_out \in Outcomes(ServiceText("revise_cover_letter")),
       bullets_out \in Outcomes(ServiceText("revise_bullets")) :
        Step("revise_output", revise_output_node(state, cover_out, bullets_out))

Next ==
    \/ Parse
    \/ AtsAnalysis
    \/ ResumeImprovement
    \/ GenerateCoverLetter
    \/ ResumeOptimizer
    \/ InterviewPrep
    \/ CompileOutput
    \/ SelfReview
    \/ ReviseOutput

Spec == Init /\ [][Next]_vars

\* the graph runs its next node as long as there is one
FairSpec == Spec /\ WF_vars(Next)

----------------------------------------------------------------------------
(* Skill matcher runs: calculate_ats_score on two extraction responses *)

InitMatcher ==
    /\ pc = "calculate_ats_score"
    /\ state = initial_state
    /\ resume_content \in SeqsOf(AtsPieces, 1, MaxPieces)
    /\ jd_content \in SeqsOf(AtsPieces, 1, MaxPieces)
    /\ failed = {}
    /\ calls = << >>
    /\ trace = << >>
    /\ result = NoResult
    /\ NoHandlerCalled

Calculate ==
    /\ pc = "calculate_ats_score"
    /\ \E resume_out \in Outcomes(resume_content), jd_out \in Outcomes(jd_content) :
          /\ result' = calculate_ats_score(resume_out, jd_out)
          /\ calls' = result'.calls
          /\ failed' = result'.failed
    /\ pc' = IF result'.raised THEN "raised" ELSE "returned"
    /\ UNCHANGED <<state, resume_content, jd_content, trace, app_vars>>

NextMatcher == Calculate

SpecMatcher == InitMatcher /\ [][NextMatcher]_vars

----------------------------------------------------------------------------
(* Router runs: the conditional edge out of ats_analysis on every score *)

InitRouter ==
    /\ pc = "ats_analysis"
    /\ \E score \in 0..100 : state = [initial_state EXCEPT !.ats_score = score]
    /\ resume_content = <<"">>
    /\ jd_content = <<"">>
    /\ failed = {}
    /\ calls = << >>
    /\ trace = << >>
    /\ result = NoResult
    /\ NoHandlerCalled

Route ==
    /\ pc = "ats_analysis"
    /\ pc' = next_node("ats_analysis", state)
    /\ trace' = Append(trace, "ats_analysis")
    /\ UNCHANGED <<state, resume_content, jd_content, failed, calls, result, app_vars>>

NextRouter == Route

SpecRouter == InitRouter /\ [][NextRouter]_vars

----------------------------------------------------------------------------
(* Improvement generator runs: generate_resume_improvements on every score *)

InitImprovements ==
    /\ pc = "generate_resume_improvements"
    /\ \E score \in 0..100 : state = [initial_state EXCEPT !.ats_score = score]
    /\ resume_content = <<"">>
    /\ jd_content = <<"">>
    /\ failed = {}
    /\ calls = << >>
    /\ trace = << >>
    /\ result = NoResult
    /\ NoHandlerCalled

Improve ==
    /\ pc = "generate_resume_improvements"
    /\ \E out \in Outcomes(ServiceText("improvements")) :
          /\ result' = generate_resume_improvements(state.resume, state.jd,
                                                    state.matched_skills,
                                                    state.missing_skills,
                                                    state.ats_score, out)
          /\ calls' = result'.calls
          /\ failed' = result'.failed
    /\ pc' = IF result'.raised THEN "raised" ELSE "returned"
    /\ UNCHANGED <<state, resume_content, jd_content, trace, app_vars>>

NextImprovements == Improve

SpecImprovements == InitImprovements /\ [][NextImprovements]_vars

----------------------------------------------------------------------------
(* Handler runs: calls of process_application and qa_about_match *)

InitApp ==
    /\ pc = "app"
    /\ state = initial_state
    /\ resume_content = <<"">>
    /\ jd_content = <<"">>
    /\ failed = {}
    /\ calls = << >>
    /\ trace = << >>
    /\ result = NoResult
    /\ NoHandlerCalled

NextApp ==
    \/ \E p \in Handlers : Submit(p)
    \/ \E p \in Handlers : StoreResume(p)
    \/ \E p \in Handlers : StoreJd(p)
    \/ \E p \in Handlers : RunAgent(p)
    \/ QaCheckResume
    \/ QaCheckJd
    \/ QaFormatResume
    \/ QaFormatJd
    \/ QaInvoke

SpecApp == InitApp /\ [][NextApp]_vars

----------------------------------------------------------------------------
(* Prompt runs: the prompt of every call site on texts around the clip      *)
(* lengths                                                                  *)

\* the lengths of the texts, in characters
TextLengths == {299, 301, 501, 1501}

\* a text of n characters
TextOf(n) == [i \in 1..n |-> "c"]

InitPrompts ==
    /\ pc = "format"
    /\ \E r \in TextLengths, j \in TextLengths, c \in TextLengths, b \in TextLengths :
          state = [initial_state EXCEPT !.resume = TextOf(r), !.jd = TextOf(j),
                                        !.cover_letter = TextOf(c),
                                        !.optimized_bullets = TextOf(b)]
    /\ resume_content = <<"">>
    /\ jd_content = <<"">>
    /\ failed = {}
    /\ calls = << >>
    /\ trace = << >>
    /\ result = NoResult
    /\ NoHandlerCalled

Format ==
    /\ pc = "format"
    /\ \E site \in PipelineSites \cup HelperSites :
          /\ result' = prompt_of(site, state.resume, state.jd, state.cover_letter,
                                 state.optimized_bullets)
          /\ calls' = <<site>>
    /\ pc' = "formatted"
    /\ UNCHANGED <<state, resume_content, jd_content, failed, trace, app_vars>>

NextPrompts == Format

SpecPrompts == InitPrompts /\ [][NextPrompts]_vars

----------------------------------------------------------------------------
(* Refine runs: refine_with_preference_tool on a cover letter, bullets, a   *)
(* preference and a response of the Generation Service                      *)

\* the tokens of the responses to the refine prompt
RefineTokens == {"[COVER_LETTER]", "[BULLETS]", " ", "refined", "**generated**"}

\* the cover letters and the bullets the tool is given: plain, and with bold
\* markdown left in
GivenCoverLetters == {<<"cover letter">>, <<"**generated**", "cover letter">>}
GivenBullets == {<<"bullets">>, <<"bullets", "**generated**">>}

\* the preferences the user picks
Preferences == {LooksGood, "Highlight backend and system design more"}

InitRefine ==
    /\ pc = "refine_with_preference_tool"
    /\ \E cover_letter \in GivenCoverLetters, bullets \in GivenBullets :
          state = [initial_state EXCEPT !.cover_letter = cover_letter,
                                        !.optimized_bullets = bullets]
    /\ resume_content = <<"">>
    /\ jd_content = <<"">>
    /\ failed = {}
    /\ calls = << >>
    /\ trace = << >>
    /\ result = NoResult
    /\ NoHandlerCalled

Refine ==
    /\ pc = "refine_with_preference_tool"
    /\ \E preference \in Preferences, content \in SeqsOf(RefineTokens, 0, MaxResponse) :
          \E out \in Outcomes(content) :
              LET returned == refine_with_preference_tool(
                                  state.cover_letter, state.optimized_bullets,
                                  preference, state.resume, state.jd, out)
              IN  /\ result' = [preference |-> preference, response |-> out,
                                raised |-> returned.raised, value |-> returned.value]
                  /\ calls' = returned.calls
                  /\ failed' = returned.failed
                  /\ pc' = IF returned.raised THEN "raised" ELSE "returned"
    /\ UNCHANGED <<state, resume_content, jd_content, trace, app_vars>>

NextRefine == Refine

SpecRefine == InitRefine /\ [][NextRefine]_vars

----------------------------------------------------------------------------
(* Option runs: generate_refinement_options on a response of the            *)
(* Generation Service                                                       *)

InitOptions ==
    /\ pc = "generate_refinement_options"
    /\ state = initial_state
    /\ resume_content = <<"">>
    /\ jd_content = <<"">>
    /\ failed = {}
    /\ calls = << >>
    /\ trace = << >>
    /\ result = NoResult
    /\ NoHandlerCalled

Options ==
    /\ pc = "generate_refinement_options"
    /\ \E content \in SeqsOf(OptionLines, 0, MaxLines) :
          \E out \in Outcomes(content) :
              LET returned == generate_refinement_options(
                                  state.resume, state.jd, state.cover_letter,
                                  state.optimized_bullets, out)
              IN  /\ result' = [response |-> out, raised |-> returned.raised,
                                value |-> returned.value]
                  /\ calls' = returned.calls
                  /\ failed' = returned.failed
                  /\ pc' = IF returned.raised THEN "raised" ELSE "returned"
    /\ UNCHANGED <<state, resume_content, jd_content, trace, app_vars>>

NextOptions == Options

SpecOptions == InitOptions /\ [][NextOptions]_vars

----------------------------------------------------------------------------
(* Reading a report back *)

\* the banners that open the sections of a report
SectionBanners ==
    {"ATS MATCH SCORE:", "MATCHED SKILLS:", "SKILLS GAP:",
     "RESUME IMPROVEMENT SUGGESTIONS", "COVER LETTER", "OPTIMIZED RESUME BULLETS",
     "INTERVIEW PREPARATION", "ROLE EXPECTATIONS", "SKILL GROWTH PLAN"}

\* the tokens that end a section: the next banner or the footer
SectionEnds == SectionBanners \cup {"Generated by Resume Job Agent"}

HasSection(report, banner) == banner \in Range(report)

\* the text between a banner and the next banner or the footer
SectionBody(report, banner) ==
    LET start == CHOOSE i \in 1..Len(report) : report[i] = banner
        stop == CHOOSE j \in (start + 1)..Len(report) :
                    /\ report[j] \in SectionEnds
                    /\ \A k \in (start + 1)..(j - 1) : report[k] \notin SectionEnds
    IN  SubSeq(report, start + 1, stop - 1)

\* the extraction of the skill match raised
AtsFailed == failed \cap {"resume_skills", "jd_skills"} # {}

----------------------------------------------------------------------------
(* Pipeline claims *)

\* C1: whatever subset of the Generation Service calls raises, a run started
\* by run_agent reaches END, coming from revise_output, and no exception
\* leaves a node or the pipeline.
C1_ReachesEnd ==
    /\ [](pc # "raised")
    /\ <>(pc = "END" /\ trace[Len(trace)] = "revise_output")

\* a finished run in which a call raised in every step that makes one
C1_Witness ==
    /\ pc = "END"
    /\ failed = {"jd_skills", "improvements", "cover_letter", "bullets",
                 "interview_questions", "role_expectations", "learning_plan",
                 "self_review", "revise_bullets"}

\* C2: the report at END has a section for every expected field, and every
\* field whose producing step failed shows that step's placeholder.
C2_EverySectionOrPlaceholder ==
    pc = "END" =>
        LET report == state.final_output
        IN  /\ \A banner \in SectionBanners : HasSection(report, banner)
            /\ AtsFailed =>
                /\ SectionBody(report, "ATS MATCH SCORE:") = <<"50", "/100">>
                /\ SectionBody(report, "MATCHED SKILLS:") = <<"*", "Error analyzing skills">>
                /\ SectionBody(report, "SKILLS GAP:") = <<"*", "ATS analysis failed: API error">>
            /\ "improvements" \in failed =>
                SectionBody(report, "RESUME IMPROVEMENT SUGGESTIONS") = improvements_failed
            /\ "cover_letter" \in failed =>
                SectionBody(report, "COVER LETTER") = cover_letter_failed
            /\ "bullets" \in failed =>
                SectionBody(report, "OPTIMIZED RESUME BULLETS") = bullets_failed
            /\ "interview_questions" \in failed =>
                SectionBody(report, "INTERVIEW PREPARATION") = interview_questions_failed
            /\ "role_expectations" \in failed =>
                SectionBody(report, "ROLE EXPECTATIONS") = role_expectations_failed
            /\ "learning_plan" \in failed =>
                SectionBody(report, "SKILL GROWTH PLAN") = learning_plan_failed

----------------------------------------------------------------------------
(* Router claims (SpecRouter) *)

\* C3: route_after_ats is total and deterministic over 0..100: every score is
\* sent to exactly one node of the graph, the scores 0..59 to
\* resume_improvement and the scores 60..100 to generate_cover_letter, so the
\* two bands leave no gap and do not overlap.
C3_RoutePartition ==
    pc # "ats_analysis" =>
        /\ pc \in Nodes
        /\ pc = "resume_improvement" <=> state.ats_score \in 0..59
        /\ pc = "generate_cover_letter" <=> state.ats_score \in 60..100

\* the lowest score of the upper band has been routed
C3_Witness == pc = "generate_cover_letter" /\ state.ats_score = 60

\* C4 as stated: three bands, 90 and above to the cover letter, 70..89 to the
\* standard improvement step, below 70 to the deep restructuring step.
C4_ThreeBandPolicy ==
    pc # "ats_analysis" =>
        /\ state.ats_score >= 90 => pc = "generate_cover_letter"
        /\ (state.ats_score >= 70 /\ state.ats_score < 90) => pc = "resume_improvement"
        /\ state.ats_score < 70 => pc = "deep_resume_improvement"

\* C4 amended: the transition out of ats_analysis has two bands: a score of
\* 60 or more goes directly to cover-letter generation, a score below 60
\* runs the standard improvement-suggestion step first; no score leads to a
\* deep restructuring step, which the graph does not have.
C4_TwoBandPolicy ==
    [][pc = "ats_analysis" =>
        /\ pc' = IF state.ats_score >= 60
                 THEN "generate_cover_letter" ELSE "resume_improvement"
        /\ "deep_resume_improvement" \notin Nodes]_vars

\* the highest score of the lower band has been routed
C4_Witness == pc = "resume_improvement" /\ state.ats_score = 59

----------------------------------------------------------------------------
(* Pipeline claims, continued *)

\* the banner a deep restructuring step would put in front of its suggestions
UrgencyBanner == "URGENT"

\* the node has run
HasRun(node) == node \in Range(trace)

\* C5 as stated: with a score below 70 a deep restructuring step has run when
\* cover-letter generation starts, and the suggestions it wrote start with an
\* urgency banner.
C5_DeepRestructuring ==
    (pc = "generate_cover_letter" /\ state.ats_score < 70) =>
        /\ HasRun("deep_resume_improvement")
        /\ state.improvement_suggestions # << >>
        /\ Head(state.improvement_suggestions) = UrgencyBanner

\* C5 amended: with a score below 60 the standard suggestion step
\* (resume_improvement) has run when cover-letter generation starts, and
\* improvement_suggestions is what the generator returned, or the failure
\* string when its call raised, with no banner in front; with a score of 60
\* or more no suggestion step has run and improvement_suggestions is empty.
C5_StandardImprovement ==
    pc = "generate_cover_letter" =>
        IF state.ats_score < 60
        THEN /\ trace = <<"parse", "ats_analysis", "resume_improvement">>
             /\ state.improvement_suggestions =
                    IF "improvements" \in failed
                    THEN <<ErrorMark, "Improvement suggestions failed:", ErrorText>>
                    ELSE ServiceText("improvements")
        ELSE /\ trace = <<"parse", "ats_analysis">>
             /\ state.improvement_suggestions = << >>

\* cover-letter generation starts after a failed suggestion call on a low score
C5_Witness ==
    /\ pc = "generate_cover_letter"
    /\ state.ats_score = 33
    /\ "improvements" \in failed
    /\ HasRun("resume_improvement")

\* the steps from the convergence point on, in their order
FixedOrder ==
    <<"generate_cover_letter", "resume_optimizer", "interview_prep",
      "compile_output", "self_review", "revise_output">>

\* the two ways to reach the convergence point
Branches ==
    {<<"parse", "ats_analysis">>, <<"parse", "ats_analysis", "resume_improvement">>}

\* C6: every branch converges at generate_cover_letter, and from there the
\* steps run once each in the fixed order up to END, whatever the score and
\* whichever calls raised.
C6_FixedOrder ==
    /\ \A i \in 1..Len(FixedOrder) :
            pc = FixedOrder[i] =>
                \E branch \in Branches : trace = branch \o SubSeq(FixedOrder, 1, i - 1)
    /\ pc = "END" => \E branch \in Branches : trace = branch \o FixedOrder
    /\ pc \in Nodes \cup {"END"}

\* a finished run through the improvement branch with failed steps
C6_Witness ==
    /\ pc = "END"
    /\ HasRun("resume_improvement")
    /\ {"cover_letter", "learning_plan", "self_review"} \subseteq failed

\* C10: ats_score is an integer of 0..100 in every state of a pipeline run.
C10_ScoreInRange == state.ats_score \in 0..100

\* a run whose skill match failed, after ats_analysis
C10_Witness == AtsFailed /\ HasRun("ats_analysis") /\ state.ats_score = 50

----------------------------------------------------------------------------
(* Skill matcher claims (SpecMatcher) *)

\* the two skill lists the function extracted
resume_skills_of_run == skill_list(resume_content)
jd_skills_of_run == skill_list(jd_content)

\* C7: matched_skills is within jd_skills, missing_skills is jd_skills minus
\* matched_skills, the two are disjoint; a skill of the job description is
\* matched exactly when the resume names it in some casing, and both lists
\* keep the entries, the casing and the order of the job description list.
C7_MatchedAndMissing ==
    pc = "returned" =>
        LET matched == Range(result.matched_skills)
            missing == Range(result.missing_skills)
            jd == Range(jd_skills_of_run)
        IN  /\ matched \subseteq jd
            /\ missing = jd \ matched
            /\ matched \cap missing = {}
            /\ \A skill \in jd :
                    skill \in matched <=>
                        \E mine \in Range(resume_skills_of_run) : lower(mine) = lower(skill)
            /\ result.matched_skills =
                    SelectSeq(jd_skills_of_run, LAMBDA skill : skill \in matched)
            /\ result.missing_skills =
                    SelectSeq(jd_skills_of_run, LAMBDA skill : skill \in missing)

\* the resume names python in lower case only; the job description lists
\* Python and SQL
C7_Witness ==
    /\ pc = "returned"
    /\ resume_content = <<"python">>
    /\ jd_content = <<"Python", " SQL ">>
    /\ result.matched_skills = <<"Python">>
    /\ result.missing_skills = <<"SQL">>

\* 100 * m / n rounded to the nearest integer (no quotient of the model's
\* lists falls on a half)
Rounded(m, n) == (200 * m + n) \div (2 * n)

\* C8: with a non-empty job description list the score is
\* round(100 * |matched| / |jd_skills|) clamped to 0..100.
C8_RoundedScore ==
    (pc = "returned" /\ Len(jd_skills_of_run) > 0) =>
        LET rounded == Rounded(Len(result.matched_skills), Len(jd_skills_of_run))
        IN  result.score = IF rounded > 100 THEN 100 ELSE rounded

\* C9: with an empty job description list the function returns score 50 and
\* empty matched and missing lists, whatever the resume list is.
C9_EmptyJobDescription ==
    (pc = "returned" /\ jd_skills_of_run = << >>) =>
        /\ result.score = 50
        /\ result.matched_skills = << >>
        /\ result.missing_skills = << >>

\* no skill in the job description, two in the resume
C9_Witness ==
    /\ pc = "returned"
    /\ jd_content = <<"", "">>
    /\ Len(resume_skills_of_run) = 2

----------------------------------------------------------------------------
(* Pipeline claims: failures and the steps that absorb them *)

\* C11: when a call of the skill extraction raised (either of the two),
\* ats_analysis has set ats_score to 50 and matched_skills and missing_skills
\* to one-element lists naming the error, and the run has gone on to the next
\* step (no exception left the node).
C11_SkillExtractionFailure ==
    (AtsFailed /\ HasRun("ats_analysis")) =>
        /\ state.ats_score = 50
        /\ state.matched_skills = <<"Error analyzing skills">>
        /\ Len(state.missing_skills) = 1
        /\ state.missing_skills = missing_skills_failed
        /\ pc # "raised"
        /\ Len(trace) = 2 => pc \in {"resume_improvement", "generate_cover_letter"}
        /\ Len(trace) > 2 => trace[3] \in {"resume_improvement", "generate_cover_letter"}

\* the first extraction call raised and the run stands at the step that
\* follows ats_analysis
C11_Witness ==
    /\ "resume_skills" \in failed
    /\ trace = <<"parse", "ats_analysis">>
    /\ pc = "resume_improvement"
    /\ state.ats_score = 50
----------------------------------------------------------------------------
(* Improvement generator claims (SpecImprovements) *)

\* C12: generate_resume_improvements is a three-tier function of its
\* ats_score: at 90 or more it returns the empty string, at 85..89 the fixed
\* confirmation sentence, and below 85 the response of the Generation
\* Service; the first two tiers make no call of the Generation Service, the
\* third makes one.
C12_ThreeTiers ==
    /\ pc = "returned" =>
          /\ state.ats_score >= 90 =>
                result.value = << >> /\ calls = << >>
          /\ state.ats_score \in 85..89 =>
                result.value = NoMajorImprovements /\ calls = << >>
          /\ state.ats_score < 85 =>
                result.value = ServiceText("improvements") /\ calls = <<"improvements">>
    /\ pc = "raised" => (state.ats_score < 85 /\ calls = <<"improvements">>)

\* the lowest score of the middle tier
C12_Witness ==
    /\ pc = "returned"
    /\ state.ats_score = 85
    /\ result.value = NoMajorImprovements
----------------------------------------------------------------------------
(* Pipeline claims: calls of the improvement generator *)

\* the number of calls the run has made at the call site
CallsOf(site) == Cardinality({i \in 1..Len(calls) : calls[i] = site})

\* C13 as stated: a finished pipeline run has made no Generation Service call
\* for improvement suggestions when its ats_score is 85 or more, and exactly
\* one when its ats_score is below 85.
C13_CallsByTier ==
    pc = "END" =>
        /\ state.ats_score >= 85 => CallsOf("improvements") = 0
        /\ state.ats_score < 85 => CallsOf("improvements") = 1

\* C13, amended: a finished pipeline run has made no Generation Service call
\* for improvement suggestions when its ats_score is 60 or more, and exactly
\* one when its ats_score is below 60; no run makes more than one.
C13_CallsByRoute ==
    /\ CallsOf("improvements") <= 1
    /\ pc = "END" =>
          /\ state.ats_score >= 60 => CallsOf("improvements") = 0
          /\ state.ats_score < 60 => CallsOf("improvements") = 1

\* a finished run with a score between the two thresholds
C13_Witness ==
    /\ pc = "END"
    /\ state.ats_score \in 60..84
    /\ CallsOf("improvements") = 0
----------------------------------------------------------------------------
(* Pipeline claims: the revision step *)

\* the two calls of revise_content
RevisionSites == {"revise_cover_letter", "revise_bullets"}

\* C14: when either call of the revision step raised (the cover letter
\* rewrite or the bullets rewrite), cover_letter and optimized_bullets leave
\* revise_output, into the final state, with the values they had before it;
\* the step never replaces one of the two and not the other.
C14_RevisionAllOrNothing ==
    [][pc = "revise_output" =>
          /\ pc' = "END"
          /\ (failed' \cap RevisionSites # {}) =>
                /\ state'.cover_letter = state.cover_letter
                /\ state'.optimized_bullets = state.optimized_bullets
          /\ (state'.cover_letter # state.cover_letter)
                <=> (state'.optimized_bullets # state.optimized_bullets)]_vars

\* a finished run whose cover letter rewrite returned and whose bullets
\* rewrite raised: both fields still hold what their own steps generated
C14_Witness ==
    /\ pc = "END"
    /\ failed = {"revise_bullets"}
    /\ CallsOf("revise_cover_letter") = 1
    /\ state.cover_letter = strip_bold(ServiceText("cover_letter"))
    /\ state.optimized_bullets = strip_bold(ServiceText("bullets"))
\* the fields of the pipeline state other than the two the revision rewrites
\* and the report
KeptFields ==
    {"resume", "jd", "company_name", "ats_score", "matched_skills",
     "missing_skills", "improvement_suggestions", "interview_questions",
     "role_expectations", "learning_plan", "review_notes"}

\* C15: revise_output replaces only cover_letter and optimized_bullets:
\* resume, jd, company_name, ats_score, matched_skills, missing_skills,
\* improvement_suggestions, interview_questions, role_expectations,
\* learning_plan and review_notes are the same after the step as before it,
\* whether the revision succeeded or failed.
C15_RevisionKeepsOtherFields ==
    [][pc = "revise_output" =>
          \A field \in KeptFields : state'[field] = state[field]]_vars

\* a finished run whose revision succeeded, after a step that wrote review
\* notes and one that wrote improvement suggestions
C15_Witness ==
    /\ pc = "END"
    /\ failed = {}
    /\ state.cover_letter = ServiceText("revise_cover_letter")
    /\ state.optimized_bullets = ServiceText("revise_bullets")
    /\ state.review_notes = ServiceText("self_review")
    /\ state.improvement_suggestions = ServiceText("improvements")
----------------------------------------------------------------------------
(* Pipeline claims: the generated text fields *)

\* the step that writes each generated text field
Producer ==
    [improvement_suggestions |-> "resume_improvement",
     cover_letter |-> "generate_cover_letter",
     optimized_bullets |-> "resume_optimizer",
     interview_questions |-> "interview_prep",
     role_expectations |-> "interview_prep",
     learning_plan |-> "compile_output",
     review_notes |-> "self_review"]

\* the texts the Generation Service returns, as the generators hand them on
GeneratedTexts ==
    {strip_bold(ServiceText(site)) :
        site \in {"improvements", "cover_letter", "bullets", "interview_questions",
                  "role_expectations", "learning_plan", "self_review",
                  "revise_cover_letter", "revise_bullets"}}

\* a string that begins with the error indicator
IsFailureMarker(text) == text # << >> /\ Head(text) = ErrorMark

\* the field is empty before its step and generated text or a failure marker
\* after it
EmptyThenTextOrMarker(field) ==
    IF ~HasRun(Producer[field])
    THEN state[field] = << >>
    ELSE state[field] \in GeneratedTexts \/ IsFailureMarker(state[field])

\* C16: at every point of a pipeline run each generated text field
\* (improvement_suggestions, cover_letter, optimized_bullets,
\* interview_questions, role_expectations, learning_plan, review_notes) is
\* the empty string until the step that produces it has run, and after that
\* step holds the generated text or a failure marker that begins with the
\* error indicator.
C16_EmptyThenTextOrMarker ==
    \A field \in DOMAIN Producer : EmptyThenTextOrMarker(field)
----------------------------------------------------------------------------
(* Pipeline claims: the improvement section of the reports *)

\* the report in the state is the compiled one / the revised one
IsCompiledReport == HasRun("compile_output") /\ ~HasRun("revise_output")
IsRevisedReport == HasRun("revise_output")

\* C17: when improvement_suggestions is empty at output assembly, the report
\* still contains the improvement-suggestions section, filled with a fallback
\* line, in the compiled report and in the revised report.
C17_FallbackLine ==
    ((IsCompiledReport \/ IsRevisedReport) /\ state.improvement_suggestions = << >>) =>
        /\ HasSection(state.final_output, "RESUME IMPROVEMENT SUGGESTIONS")
        /\ SectionBody(state.final_output, "RESUME IMPROVEMENT SUGGESTIONS") # << >>
----------------------------------------------------------------------------
(* Pipeline claims: the worked example *)

\* the run of the example: the resume names Python and SQL, the job
\* description Python, SQL and Kubernetes, and the skill match succeeded
ExampleRun ==
    /\ resume_content = Slice(ExampleSkills, 2)
    /\ jd_content = ExampleSkills
    /\ ~AtsFailed

\* C18: in the run of the example, matched_skills is {Python, SQL},
\* missing_skills is {Kubernetes}, ats_score is 67, and the run has passed
\* through an improvement-suggestion step when cover-letter generation starts.
C18_WorkedExample ==
    (ExampleRun /\ pc = "generate_cover_letter") =>
        /\ Range(state.matched_skills) = {"Python", "SQL"}
        /\ Range(state.missing_skills) = {"Kubernetes"}
        /\ state.ats_score = 67
        /\ HasRun("resume_improvement")
----------------------------------------------------------------------------
(* Handler claims (SpecApp) *)

\* the documents of the most recent call of process_application
most_recent_docs == process[most_recent].docs

\* C19: as long as the handler calls have run one after the other, once the
\* calls of process_application made so far have returned the cache holds the
\* resume and the job description of the most recent one (each call
\* overwrites the pair of the one before), and a qa_about_match call that
\* follows builds its prompt from exactly that pair.
C19_CacheHoldsMostRecent ==
    ~overlapped =>
        /\ (most_recent # 0 /\ \A p \in Handlers : ~InProgress(p)) =>
              /\ last_state.resume = most_recent_docs.resume
              /\ last_state.jd = most_recent_docs.jd
        /\ qa.pc = "invoke" =>
              /\ most_recent # 0
              /\ qa.prompt = most_recent_docs

\* two calls with different documents one after the other, then a question
\* whose prompt has just been built
C19_Witness ==
    /\ ~overlapped
    /\ \A p \in Handlers : process[p].pc = "returned"
    /\ process[1].docs # process[2].docs
    /\ most_recent = 2
    /\ qa.pc = "invoke"
    /\ qa.prompt = process[2].docs

\* the cache holds the resume of one submission and the job description of
\* the other
MixedPair ==
    \E p \in Handlers, q \in Handlers :
        /\ process[p].docs.resume # process[q].docs.resume
        /\ process[p].docs.jd # process[q].docs.jd
        /\ last_state.resume = process[p].docs.resume
        /\ last_state.jd = process[q].docs.jd

\* C20: the cache is overwritten in two steps and nothing protects them: no
\* step of a call writes both the resume and the job description of the
\* cache, and a call that is about to write its resume can do so while
\* another call stands between its two writes.  (The state this makes
\* reachable, a mixed pair read by qa_about_match, is C20_Witness.)
C20_NonAtomicOverwrite ==
    /\ [][last_state'.resume # last_state.resume => last_state'.jd = last_state.jd]_vars
    /\ [](\A p \in Handlers, q \in Handlers :
            (p # q /\ process[p].pc = "store_jd" /\ process[q].pc = "store_resume")
                => ENABLED StoreResume(q))

\* two interleaved calls have left the resume of one and the job description
\* of the other in the cache, and qa_about_match has built its prompt from
\* that pair
C20_Witness ==
    /\ MixedPair
    /\ \A p \in Handlers : process[p].pc = "returned"
    /\ qa.pc = "invoke"
    /\ qa.prompt.resume = last_state.resume
    /\ qa.prompt.jd = last_state.jd
\* C21: a call of process_application whose parsing and whose pipeline run
\* completed without raising returns the sections of the pipeline followed by
\* the raw resume and job description texts, and has stored the full report
\* in the cache.  (In the handler runs parse_documents and run_agent never
\* raise.)
C21_ReturnsSections ==
    \A p \in Handlers :
        process[p].pc = "returned" =>
            /\ Len(process[p].returned) = 10
            /\ process[p].returned[1] = << >> \/ Head(process[p].returned[1]) # ErrorMark
            /\ process[p].returned[9] = process[p].docs.resume
            /\ process[p].returned[10] = process[p].docs.jd
            /\ last_state.full_report # << >>
----------------------------------------------------------------------------
(* Pipeline claims: no retries, the skill match, the final report *)

\* no element occurs twice in the sequence
NoRepeat(seq) == \A i \in 1..Len(seq), j \in 1..Len(seq) : seq[i] = seq[j] => i = j

\* the step, the field and the default of the call sites whose failure is
\* replaced by a string
Substitute ==
    [improvements |-> <<"resume_improvement", "improvement_suggestions", improvements_failed>>,
     cover_letter |-> <<"generate_cover_letter", "cover_letter", cover_letter_failed>>,
     bullets |-> <<"resume_optimizer", "optimized_bullets", bullets_failed>>,
     interview_questions |-> <<"interview_prep", "interview_questions",
                               interview_questions_failed>>,
     role_expectations |-> <<"interview_prep", "role_expectations", role_expectations_failed>>,
     learning_plan |-> <<"compile_output", "learning_plan", learning_plan_failed>>,
     self_review |-> <<"self_review", "review_notes", review_notes_failed>>]

\* C22: in a pipeline run every step executes at most once and every call
\* site of the Generation Service is invoked at most once; a call that raised
\* was made once, its step has written the default and returned (no
\* exception left it), and the run has moved on to a step it has not run yet.
C22_AtMostOnce ==
    /\ NoRepeat(trace)
    /\ NoRepeat(calls)
    /\ failed \subseteq Range(calls)
    /\ pc # "raised"
    /\ pc \in Nodes => ~HasRun(pc)
    /\ \A site \in DOMAIN Substitute :
          (site \in failed /\ trace[Len(trace)] = Substitute[site][1]) =>
              state[Substitute[site][2]] = Substitute[site][3]

\* a finished run through all nine steps whose cover letter call raised, once
C22_Witness ==
    /\ pc = "END"
    /\ Len(trace) = 9
    /\ "cover_letter" \in failed
    /\ CallsOf("cover_letter") = 1
    /\ state.cover_letter = cover_letter_failed
\* what ats_analysis writes in this run: the result of calculate_ats_score on
\* the two extraction responses, or the defaults when a call raised
AtsWritten ==
    LET answer == calculate_ats_score(Returns(resume_content), Returns(jd_content))
    IN  IF AtsFailed
        THEN [ats_score |-> AtsFailureScore,
              matched_skills |-> matched_skills_failed,
              missing_skills |-> missing_skills_failed]
        ELSE [ats_score |-> answer.score,
              matched_skills |-> answer.matched_skills,
              missing_skills |-> answer.missing_skills]

\* the skill-match fields of the state
SkillMatch(st) ==
    [ats_score |-> st.ats_score,
     matched_skills |-> st.matched_skills,
     missing_skills |-> st.missing_skills]

\* C23: the skill-match result is produced once: ats_score, matched_skills
\* and missing_skills are written by ats_analysis only and no other step
\* changes them, so that the routing decision, the improvement-suggestion
\* step and the learning-plan generation (compile_output) find in the state
\* the values ats_analysis wrote.
C23_SkillMatchWrittenOnce ==
    /\ [][pc # "ats_analysis" => SkillMatch(state') = SkillMatch(state)]_vars
    /\ [](HasRun("ats_analysis") =>
            /\ SkillMatch(state) = AtsWritten
            /\ Len(trace) > 2 =>
                  trace[3] = conditional_edges[route_after_ats(AtsWritten)])

\* a finished run that went through the improvement step and the learning
\* plan with a successful skill match that left a matched and a missing skill
C23_Witness ==
    /\ pc = "END"
    /\ ~AtsFailed
    /\ HasRun("resume_improvement")
    /\ state.matched_skills # << >>
    /\ state.missing_skills # << >>
    /\ state.ats_score = AtsWritten.ats_score
----------------------------------------------------------------------------
(* Prompt claims (SpecPrompts) *)

\* the prompt has the field and it holds the first n characters of the text
Clipped(field, text, n) ==
    field \in DOMAIN result /\ result[field] = Slice(text, n)

\* every field of the prompt holds the whole text it was given
Unclipped ==
    /\ "resume" \in DOMAIN result => result.resume = state.resume
    /\ "jd" \in DOMAIN result => result.jd = state.jd
    /\ "cover_letter" \in DOMAIN result => result.cover_letter = state.cover_letter
    /\ "bullets" \in DOMAIN result => result.bullets = state.optimized_bullets

\* C24 as stated: the Q&A and refine helper generators clip their inputs
\* before building the prompt, the resume and the job description to the
\* first 1500 characters, the cover letter to 500 and the bullets to 300,
\* while the pipeline generators pass the resume and the job description
\* untruncated.
C24_HelpersClip ==
    pc = "formatted" =>
        /\ calls[1] \in {"qa", "refine", "refinement_options"} =>
              /\ Clipped("resume", state.resume, 1500)
              /\ Clipped("jd", state.jd, 1500)
        /\ calls[1] = "refine" =>
              /\ Clipped("cover_letter", state.cover_letter, 500)
              /\ Clipped("bullets", state.optimized_bullets, 300)
        /\ calls[1] \in PipelineSites => Unclipped

\* C24, amended: generate_refinement_options clips the resume and the job
\* description to the first 1500 characters and review_application_package
\* clips the cover letter to 500 and the bullets to 300; qa_about_match,
\* refine_with_preference_tool and every pipeline generator pass all their
\* texts untruncated.
C24_WhichHelpersClip ==
    pc = "formatted" =>
        /\ calls[1] = "refinement_options" =>
              /\ Clipped("resume", state.resume, 1500)
              /\ Clipped("jd", state.jd, 1500)
        /\ calls[1] = "review_package" =>
              /\ Clipped("cover_letter", state.cover_letter, 500)
              /\ Clipped("bullets", state.optimized_bullets, 300)
        /\ calls[1] \in PipelineSites \cup {"qa", "refine"} => Unclipped

\* the options prompt of a resume and a job description of 1501 characters
C24_Witness ==
    /\ pc = "formatted"
    /\ calls = <<"refinement_options">>
    /\ Len(state.resume) = 1501
    /\ Len(state.jd) = 1501
    /\ Len(result.resume) = 1500
    /\ Len(result.jd) = 1500
----------------------------------------------------------------------------
(* Pipeline claims: the route of a failed skill match, the improvement step *)

\* C25: whenever calculate_ats_score raised inside ats_analysis, the score 50
\* makes route_after_ats select resume_improvement: the run executes the
\* improvement-suggestion step, with the error-message lists as its skill
\* inputs, and does so before cover-letter generation.
C25_FailedMatchIsImproved ==
    /\ []((AtsFailed /\ HasRun("ats_analysis")) =>
            /\ Len(trace) = 2 =>
                  /\ pc = "resume_improvement"
                  /\ state.matched_skills = matched_skills_failed
                  /\ state.missing_skills = missing_skills_failed
            /\ Len(trace) > 2 => trace[3] = "resume_improvement"
            /\ HasRun("generate_cover_letter") => trace[4] = "generate_cover_letter")
    /\ (AtsFailed ~> HasRun("resume_improvement"))

\* the job description extraction raised and the run has passed the
\* improvement step and reached cover-letter generation
C25_Witness ==
    /\ "jd_skills" \in failed
    /\ "resume_skills" \notin failed
    /\ trace = <<"parse", "ats_analysis", "resume_improvement">>
    /\ pc = "generate_cover_letter"
\* C26: whenever resume_improvement has run in the pipeline, the generator
\* took its generation branch (the node passes no score, so ats_score is 0):
\* exactly one call of the Generation Service was made for the suggestions,
\* which are its response or the failure string; the empty string and the
\* fixed confirmation sentence are never what the generator returned.
C26_AlwaysGenerates ==
    /\ state.improvement_suggestions # NoMajorImprovements
    /\ HasRun("resume_improvement") =>
          /\ CallsOf("improvements") = 1
          /\ state.improvement_suggestions # << >>
          /\ IF "improvements" \in failed
             THEN state.improvement_suggestions = improvements_failed
             ELSE state.improvement_suggestions = ServiceText("improvements")
    /\ ~HasRun("resume_improvement") => CallsOf("improvements") = 0

\* a finished run with one matched skill of three, whose improvement step
\* stored the response of the Generation Service
C26_Witness ==
    /\ pc = "END"
    /\ HasRun("resume_improvement")
    /\ state.ats_score = 33
    /\ state.improvement_suggestions = ServiceText("improvements")
----------------------------------------------------------------------------
(* Pipeline claims: the report at END *)

\* what the cover letter and the bullets can be before the revision
PreRevisionCoverLetters == {strip_bold(ServiceText("cover_letter")), cover_letter_failed}
PreRevisionBullets == {strip_bold(ServiceText("bullets")), bullets_failed}

----------------------------------------------------------------------------
(* Handler claims, continued (SpecApp) *)

\* qa_about_match has returned the warning without calling the Generation
\* Service
WarningReturned(call) ==
    /\ call.pc = "idle"
    /\ call.returned = RunAgentFirst
    /\ call.calls = << >>

\* C28: qa_about_match makes no call of the Generation Service and returns
\* the "run the agent first" warning whenever it finds the cached resume or
\* the cached job description empty; it never raises: when the call of the
\* Generation Service raises it returns an error string, and otherwise the
\* answer.
C28_WarningOrAnswer ==
    /\ [](/\ qa.pc # "raised"
          /\ qa.returned = RunAgentFirst => qa.calls = << >>
          /\ qa.calls # << >> => qa.returned \in {QaAnswer, qa_error})
    /\ [][/\ (qa.pc = "idle" /\ qa' # qa /\ last_state.resume = << >>)
                => WarningReturned(qa')
          /\ (qa.pc = "check_jd" /\ qa' # qa /\ last_state.jd = << >>)
                => WarningReturned(qa')
          /\ qa.pc = "invoke" /\ qa' # qa =>
                qa'.pc = "idle" /\ qa'.calls = <<"qa">>
                                /\ qa'.returned \in {QaAnswer, qa_error}]_vars

\* the cache holds a resume and no job description yet, and qa_about_match
\* has returned the warning
C28_Witness ==
    /\ last_state.resume # << >>
    /\ last_state.jd = << >>
    /\ WarningReturned(qa)
----------------------------------------------------------------------------
(* Refine claims (SpecRefine) *)

\* the cover letter and the bullets the tool was given
Originals == [cover_letter |-> state.cover_letter, bullets |-> state.optimized_bullets]

\* the same, without their bold markdown
PlainOriginals ==
    [cover_letter |-> strip_bold(state.cover_letter),
     bullets |-> strip_bold(state.optimized_bullets)]

\* the tool asked the Generation Service and got this text back
Answered(text) ==
    /\ pc = "returned"
    /\ result.preference # LooksGood
    /\ ~result.response.raises
    /\ text = result.response.content

\* what holds of every return of the tool whatever is kept of the originals
\* in the fallbacks: no exception, no call for "Looks good as is", the
\* originals when the call raised
RefineReturns(kept) ==
    /\ pc # "raised"
    /\ (pc = "returned" /\ result.preference = LooksGood) =>
          result.value = Originals /\ calls = << >>
    /\ (pc = "returned" /\ result.preference # LooksGood /\ result.response.raises) =>
          result.value = Originals
    /\ pc = "returned" =>
          LET text == result.response.content
          IN  Answered(text) =>
                  /\ ~has_markers(text) => result.value = kept
                  /\ (has_markers(text) /\ cover_part_of(text) = << >>) =>
                        result.value.cover_letter = kept.cover_letter
                  /\ (has_markers(text) /\ bullets_part_of(text) = << >>) =>
                        result.value.bullets = kept.bullets

----------------------------------------------------------------------------
(* Option claims (SpecOptions) *)

====
